---- MODULE Spec2Model ----
(***************************************************************************)
(* A model of lambda_function.py: the Alexa skill that takes a patient's   *)
(* medical history.  One session of the skill is modelled: the session     *)
(* attributes, the MongoDB collections the handlers touch (questions,      *)
(* counters, patients) and the response of the last turn.  Each request    *)
(* handler is one action; the language gateway (Gemini) and the database   *)
(* are inputs drawn nondeterministically per turn.                         *)
(*                                                                         *)
(* Conventions.                                                            *)
(*  - A Python value that may be None/absent is a sequence of length 0     *)
(*    (None) or 1 (<<x>>).                                                 *)
(*  - A question_id is a sequence of numbers, <<0, 3>> for "q0_3"; the     *)
(*    follow-up id f"{question_id}_{index}" appends the index.            *)
(*  - Strings are strings; the string functions of the code are tabulated  *)
(*    on the utterances and gateway texts of the model.                    *)
(*  - An unhandled Python exception ends the turn with the response        *)
(*    EXCEPTION; the session attributes of that turn are lost (they travel *)
(*    in the response), the database writes already made stay.             *)
(***************************************************************************)
EXTENDS Integers, Sequences, FiniteSets, TLC

VARIABLES
    collection,          \* db['questions']: the catalog document
    counters,            \* db['counters']: seq per counter name
    patients,            \* db['patients']: (session_id, patient_id) -> response array
    session_attributes,  \* the Alexa session attributes
    response,            \* the response of the last turn
    turn,                \* the last inbound turn: intent and the inputs it consumed
    yes_confirmed,       \* history: ids whose pending value a YES has confirmed
    allocated,           \* history: the get_next_sequence calls of concurrent sessions
    saving               \* the save_patient_data executions that run at the same time

vars ==
    <<collection, counters, patients, session_attributes, response, turn, yes_confirmed,
      allocated, saving>>

None == <<>>
Some(x) == <<x>>
IsNone(o) == o = <<>>
Get(o) == o[1]

EmptyMap == [k \in {} |-> <<>>]

(***************************************************************************)
(* Slot classes of capture_answer_intent.                                  *)
(***************************************************************************)
FREE_TEXT_SLOTS ==
    { "medical_conditions_list", "surgeries_list", "surgeries_reason",
      "medications_list", "allergy_type", "allergy_reaction",
      "family_medical_conditions_list", "family_medical_conditions_list_2",
      "family_disability_type", "family_disability_type_2", "exercise_list",
      "immunizations_list", "occupation", "travel_frequency",
      "harsh_environment_exposure" }

NO_CONFIRMATION_SLOTS ==
    { "medical_conditions", "surgeries", "allergies", "children",
      "smoking_status", "alcohol_consumption", "exercise",
      "family_medical_history", "family_disabilities", "immunizations",
      "previous_medical_records", "previous_medical_records_submission" }

retrieve_error_mg == "Sorry, I couldn't retrieve the questions. Please try again later."

(***************************************************************************)
(* Texts.  Utterances are the slot values Alexa hands over (already        *)
(* stripped); FormattedValues are the texts Gemini may return after        *)
(* "VALID|", Details those it may return as an extracted detail or as an   *)
(* extraction.                                                             *)
(***************************************************************************)
Utterances == { "jo at x dot com", "1990-11-11" }

FormattedValues == { "1990-11-11", "March 20 2023" }

Details == { "appendectomy" }

\* The decision Gemini's text yields after .strip().upper(): one of the three
\* words asked for, or anything else ("YES." stands for a malformed reply).
Decisions == { "YES", "NO", "UNCLEAR", "YES." }

\* str.lower() on the decisions
Lower(d) ==
    CASE d = "YES" -> "yes"
      [] d = "NO" -> "no"
      [] d = "UNCLEAR" -> "unclear"
      [] OTHER -> "yes."

\* str.title()
Title(v) ==
    CASE v = "jo at x dot com" -> "Jo At X Dot Com"
      [] v = "appendectomy" -> "Appendectomy"
      [] OTHER -> v

\* len(v.split())
WordCount(v) ==
    CASE v = "jo at x dot com" -> 5
      [] v = "Jo At X Dot Com" -> 5
      [] v = "March 20 2023" -> 3
      [] v = "March 2023" -> 2
      [] OTHER -> 1

\* v.split()[0].title()
FirstNameOf(v) ==
    CASE v = "jo at x dot com" -> "Jo"
      [] v = "March 20 2023" -> "March"
      [] OTHER -> Title(v)

\* the gender_map replacements of the "gender" branch: no text of the model
\* contains one of its words
GenderMap(v) == v

\* v.replace(" at ", "@").replace(" dot ", ".").strip().lower()
EmailNormalise(v) ==
    CASE v = "jo at x dot com" -> "jo@x.com"
      [] v = "March 20 2023" -> "march 20 2023"
      [] OTHER -> v

\* re.match(r'^[\w\.-]+@[\w\.-]+\.[a-z]{2,}$', v)
EmailFormatOk(v) == v = "jo@x.com"

\* v.replace("oh", "zero"), then "+61" + digits[1:] when the digits start
\* with 0: no text of the model holds "oh" or has digits that start with 0
PhoneNormalise(v) == v

\* re.match(r'^\+61[23478]\d{8}$', v)
PhoneFormatOk(v) == FALSE

\* re.match(r"^\d{4}-\d{2}-\d{2}$", v)
DobFormatOk(v) == v = "1990-11-11"

\* the two re.sub of the date branch applied to Gemini's result
DateClean(v) ==
    CASE v = "March 20 2023" -> "March 2023"
      [] OTHER -> v

\* format_date_for_speech: strptime(ym, "%Y-%m") fails on every text of the
\* model but a year-month
format_date_for_speech(ym) ==
    CASE ym = "2023-03" -> "March 2023"
      [] OTHER -> ym

\* normalise_question: "e.g." becomes "for example, ", brackets are removed
normalise_question(text) ==
    CASE text = "Any surgeries (e.g. appendix)?" -> "Any surgeries for example, appendix?"
      [] OTHER -> text

(***************************************************************************)
(* The question catalog: db['questions'] holds one document                *)
(* {opening, closing, sections: [{questions: [...]}]}.                     *)
(***************************************************************************)
FollowUp(title, text) == [question_title |-> title, question |-> text]

Question(id, title, text, fups) ==
    [question_id |-> id, question_title |-> title, question |-> text, follow_up |-> fups]

Opening == "We would like to ask you some health questions. Are you ready?"
Closing == "Thank you. That is all."

\* the number of follow-ups configured under the yes/no question
MaxFollowUps == 2

ConfiguredFollowUps ==
    << FollowUp("surgeries_list", "Which surgeries did you have?"),
       FollowUp("surgeries_date", "When was the surgery?"),
       FollowUp("surgeries_reason", "Why did you have the surgery?") >>

SurgeriesFollowUps == SubSeq(ConfiguredFollowUps, 1, MaxFollowUps)

\* two structured slots in one section
CatalogIntake ==
    [ opening |-> Opening, closing |-> Closing,
      sections |->
        << << Question(<<0, 0>>, "name", "What is your full name?", <<>>),
              Question(<<0, 1>>, "date_of_birth", "What is your date of birth?", <<>>) >> >> ]

\* a yes/no question with follow-ups, and a free-text question with a
\* follow-up after it
CatalogHistory ==
    [ opening |-> Opening, closing |-> Closing,
      sections |->
        << << Question(<<0, 0>>, "surgeries", "Any surgeries (e.g. appendix)?",
                       SurgeriesFollowUps),
              Question(<<0, 1>>, "occupation", "What is your occupation?",
                       << FollowUp("travel_frequency", "How often do you travel for work?") >>)
           >> >> ]

\* a slot with a local format check, a yes/no question without follow-ups,
\* and a free-text question in section 2
CatalogLifestyle ==
    [ opening |-> Opening, closing |-> Closing,
      sections |->
        << << Question(<<0, 0>>, "email", "What is your email address?", <<>>) >>,
           << Question(<<1, 0>>, "smoking_status", "Do you smoke?", <<>>) >>,
           << Question(<<2, 0>>, "occupation", "What is your occupation?", <<>>) >> >> ]

\* an empty section between two sections that hold a question
CatalogGap ==
    [ opening |-> Opening, closing |-> Closing,
      sections |->
        << << Question(<<0, 0>>, "home_address", "What is your home address?", <<>>) >>,
           << >>,
           << Question(<<2, 0>>, "occupation", "What is your occupation?", <<>>) >> >> ]

Catalogs == { CatalogIntake, CatalogHistory, CatalogLifestyle, CatalogGap }

\* get_questions on a document that was found: the question texts normalised
get_questions(doc) ==
    [ doc EXCEPT !.sections =
        [ s \in DOMAIN doc.sections |->
            [ q \in DOMAIN doc.sections[s] |->
                [ doc.sections[s][q] EXCEPT
                    !.question = normalise_question(doc.sections[s][q].question) ] ] ] ]

\* get_next_question: the question at (section_index, question_index), or None
get_next_question(questions, section_index, question_index) ==
    IF /\ ~IsNone(questions)
       /\ section_index < Len(Get(questions).sections)
       /\ question_index < Len(Get(questions).sections[section_index + 1])
    THEN Some(Get(questions).sections[section_index + 1][question_index + 1])
    ELSE None

\* the sessions that allocate ids at the same time
MaxSessions == 2

ConcurrentSessions == 1 .. MaxSessions

\* the calls one session makes: at launch, and again at its first answer turn
AllocationOrder == << "session_id", "patient_id", "session_id", "patient_id" >>

\* a plausible slip: the document is returned as it was BEFORE the update
get_next_sequence_ReturnsBefore(ctrs, name) ==
    [ counters |-> [ctrs EXCEPT ![name] = @ + 1], seq |-> ctrs[name] ]

\* get_next_sequence: find_one_and_update with $inc, the document AFTER
get_next_sequence(ctrs, name) ==
    [ counters |-> [ctrs EXCEPT ![name] = @ + 1], seq |-> ctrs[name] + 1 ]

(***************************************************************************)
(* save_patient_data: for every item of patient_data, update the record of *)
(* that question_id in the document of (session_id, patient_id) or, when   *)
(* none matched, push a new record (upsert).                               *)
(***************************************************************************)
ResponseRecord(question_id, item) ==
    [question_id |-> question_id, question |-> item[1], response |-> item[2]]

HasRecord(doc, question_id) == \E i \in DOMAIN doc : doc[i].question_id = question_id

\* a plausible slip: every save pushes a new record
UpsertRecord_AlwaysPushes(doc, question_id, item) ==
    Append(doc, ResponseRecord(question_id, item))

UpsertRecord(doc, question_id, item) ==
    IF HasRecord(doc, question_id)
    THEN [ i \in DOMAIN doc |->
             IF doc[i].question_id = question_id
             THEN ResponseRecord(question_id, item) ELSE doc[i] ]
    ELSE Append(doc, ResponseRecord(question_id, item))

RECURSIVE SaveItems(_, _, _)
SaveItems(doc, patient_data, ids) ==
    IF ids = {} THEN doc
    ELSE LET id == CHOOSE x \in ids : TRUE
         IN SaveItems(UpsertRecord(doc, id, patient_data[id]), patient_data, ids \ {id})

\* a plausible slip: upsert=True is left out, so no document is ever created
save_patient_data_NoUpsert(store, sa) ==
    LET key == <<sa.session_id, sa.patient_id>>
    IN IF key \notin DOMAIN store THEN store
       ELSE (key :> SaveItems(store[key], sa.patient_data, DOMAIN sa.patient_data)) @@ store

save_patient_data(store, sa) ==
    LET key == <<sa.session_id, sa.patient_id>>
        doc == IF key \in DOMAIN store THEN store[key] ELSE <<>>
    IN IF DOMAIN sa.patient_data = {} THEN store
       ELSE (key :> SaveItems(doc, sa.patient_data, DOMAIN sa.patient_data)) @@ store

(***************************************************************************)
(* save_patient_data step by step, for executions that run at the same     *)
(* time.  Each update_one is one operation of the server on the document;  *)
(* between the update_one of line 144 and the $push of line 148 another    *)
(* execution may run.                                                      *)
(***************************************************************************)
MaxExecutions == 2

Executions == 1 .. MaxExecutions

\* the (session_id, patient_id) the executions write under
SavedKey == <<1, 1>>

\* patient_data as an execution may be given it, in the order of its items
SavedData ==
    { << <<<<0, 0>>, <<"surgeries", a>>>> >> : a \in { "yes", "no" } }
    \cup { << <<<<0, 0>>, <<"surgeries", a>>>>, <<<<0, 1>>, <<"occupation", b>>>> >> :
             a \in { "yes", "no" }, b \in { "nurse", "driver" } }

NotSaving == [pc |-> "idle", items |-> <<>>, i |-> 0, time |-> 0]

\* line 116: melbourne_time, the clock read when the call starts; a call that
\* starts later reads a later time
Clock == 1 + Cardinality({ e \in Executions : saving[e].pc # "idle" })

\* the record with the "time" the step-by-step executions write (lines
\* 137-141 and 152-157)
TimedRecord(question_id, item, time) ==
    [ question_id |-> question_id, question |-> item[1], response |-> item[2],
      time |-> time ]

\* line 122: the loop goes on to the next item, or the function returns
NextItem(e) ==
    IF saving[e].i < Len(saving[e].items)
    THEN [saving[e] EXCEPT !.pc = "update_one", !.i = @ + 1]
    ELSE [saving[e] EXCEPT !.pc = "done"]

\* the document of the key as the server holds it
StoredDoc == IF SavedKey \in DOMAIN patients THEN patients[SavedKey] ELSE <<>>

\* "response.$": the first record of the array that matched the query
FirstMatch(doc, question_id) ==
    CHOOSE i \in DOMAIN doc :
        /\ doc[i].question_id = question_id
        /\ \A j \in 1 .. (i - 1) : doc[j].question_id # question_id

\* lines 111-122: the call, with the session attributes of its turn
SaveCall(e) ==
    /\ saving[e].pc = "idle"
    /\ \E items \in SavedData :
          saving' = [saving EXCEPT ![e] = [pc |-> "update_one", items |-> items, i |-> 1,
                                            time |-> Clock]]
    /\ UNCHANGED <<collection, counters, patients, session_attributes, response, turn,
                   yes_confirmed, allocated>>

\* lines 125-147: update the record of the question_id, if there is one
SaveUpdateOne(e) ==
    /\ saving[e].pc = "update_one"
    /\ LET item == saving[e].items[saving[e].i]
           doc == StoredDoc
       IN IF HasRecord(doc, item[1])
          THEN /\ patients' = (SavedKey :> [doc EXCEPT ![FirstMatch(doc, item[1])] =
                                   TimedRecord(item[1], item[2], saving[e].time)])
                                  @@ patients
               /\ saving' = [saving EXCEPT ![e] = NextItem(e)]
          ELSE /\ patients' = patients
               /\ saving' = [saving EXCEPT ![e].pc = "push"]      \* matched_count == 0
    /\ UNCHANGED <<collection, counters, session_attributes, response, turn, yes_confirmed,
                   allocated>>

\* lines 148-160: push a new record, creating the document if need be
SavePush(e) ==
    /\ saving[e].pc = "push"
    /\ LET item == saving[e].items[saving[e].i]
       IN patients' = (SavedKey :> Append(StoredDoc,
                                          TimedRecord(item[1], item[2], saving[e].time)))
                         @@ patients
    /\ saving' = [saving EXCEPT ![e] = NextItem(e)]
    /\ UNCHANGED <<collection, counters, session_attributes, response, turn, yes_confirmed,
                   allocated>>

(***************************************************************************)
(* Session attributes.  A fresh Alexa session holds none; an attribute     *)
(* read with .get(name, default) before it is set has its default here.    *)
(***************************************************************************)
NoSession ==
    [ questions |-> None,
      current_section |-> 0,
      current_question |-> 0,
      session_id |-> 0,
      patient_id |-> 0,
      patient_data |-> EmptyMap,
      patient_first_name |-> None,
      waiting_for_ready_confirmation |-> FALSE,
      awaiting_confirmation |-> FALSE,
      awaiting_followup_confirmation |-> FALSE,
      current_followup_for |-> None,
      unconfirmed_answer |-> None,
      unconfirmed_followup |-> None,
      confirmation_prompt |-> None,
      followups |-> EmptyMap ]

\* session_attributes.get(f"{question_id}_followups", [])
FollowupList(sa, question_id) ==
    IF question_id \in DOMAIN sa.followups THEN sa.followups[question_id] ELSE <<>>

\* f"{question_id}_{followup_index}"
FollowupId(question_id, followup_index) == Append(question_id, followup_index)

\* patient_data[id] = (label, value)
PutAnswer(patient_data, id, label, value) == (id :> <<label, value>>) @@ patient_data

(***************************************************************************)
(* Responses: what response_builder.speak(..).ask(..) is given.  kind      *)
(* names the return statement, text the question (or fixed line) spoken,   *)
(* value the answer read back, framing whether the "Let's move to the next *)
(* section" line is spoken, reprompt whether .ask() was called.  The       *)
(* random.choice among wordings that carry the same texts is not modelled. *)
(***************************************************************************)
Speak(kind, text, value, framing, reprompt) ==
    [kind |-> kind, text |-> text, value |-> value, framing |-> framing, reprompt |-> reprompt]

Ask(kind, text) == Speak(kind, text, "", FALSE, TRUE)

EXCEPTION == Speak("EXCEPTION", "", "", FALSE, FALSE)

NoResponse == Speak("-", "", "", FALSE, FALSE)

OPENING_REPHRASES ==
    { "We'd like to ask you some simple questions ... Shall we get started?",
      "To get to know you better ... Ready to begin?",
      "Let's go through some simple health questions ... Are you ready to start?" }

\* the confirmation prompt kept in the session: its wording pool and the
\* slot name and value formatted into it
Prompt(pool, slot_name, slot_value) ==
    [pool |-> pool, slot_name |-> slot_name, slot_value |-> slot_value]

(***************************************************************************)
(* The inbound turn: the intent and what the handler read on its way, "-"  *)
(* (None for the slot value) for what it did not read.                     *)
(***************************************************************************)
NoTurn ==
    [ intent |-> "-",
      before |-> NoSession,  \* the session attributes the turn started from
      db |-> "-",            \* get_questions: "ok" | "fail"
      slot_value |-> None,   \* the non-empty slot value of the intent, if any
      decision |-> "-",      \* check_yes_no_with_gemini
      decision2 |-> "-",     \*   its second call in one turn (lines 766 and 871)
      repeat |-> "-",        \* is_repeat_request: "yes" | "no"
      parse |-> "-",         \* parse_yes_no_and_detail: the decision
      detail |-> None,       \*   and the detail
      verdict |-> "-",       \* validate_with_gemini: "VALID" | "VALID|" | "INVALID|" | "ERROR"
      value |-> "-",         \*   and the text after the bar
      extraction |-> "-" ]   \* extract_information_with_gemini: a text, or "ERROR"

(***************************************************************************)
(* The end of a turn.                                                      *)
(***************************************************************************)
Return(sa, ctrs, store, resp, t, yc) ==
    /\ session_attributes' = sa
    /\ counters' = ctrs
    /\ patients' = store
    /\ response' = resp
    /\ turn' = t
    /\ yes_confirmed' = yc
    /\ UNCHANGED <<collection, allocated, saving>>

\* an exception no handler catches: no response carries the attributes back
Raise(ctrs, store, t) ==
    Return(session_attributes, ctrs, store, EXCEPTION, t, yes_confirmed)

(***************************************************************************)
(* LaunchRequest (lines 585-607).  It is the first request of a session.   *)
(***************************************************************************)
LaunchSetup(sa, ctrs) ==
    LET s == get_next_sequence(ctrs, "session_id")
        p == get_next_sequence(s.counters, "patient_id")
    IN [ sa |-> [sa EXCEPT !.current_section = 0,
                           !.current_question = 0,
                           !.session_id = s.seq,
                           !.patient_id = p.seq,
                           !.waiting_for_ready_confirmation = TRUE],
         counters |-> p.counters ]

\* a plausible slip: the ids are allocated before the catalog is looked at
LaunchRequest_AllocatesFirst ==
    /\ turn.intent = "-"
    /\ \E db \in {"ok", "fail"} :
         LET t == [NoTurn EXCEPT !.intent = "LaunchRequest",
                                    !.before = session_attributes, !.db = db]
             r == LaunchSetup(session_attributes, counters)
         IN IF db = "ok"
            THEN Return(r.sa, r.counters, patients,
                        Ask("opening", collection.opening), t, yes_confirmed)
            ELSE Return(session_attributes, r.counters, patients,
                        Ask("retrieve_error", retrieve_error_mg), t, yes_confirmed)

LaunchRequest ==
    /\ turn.intent = "-"
    /\ \E db \in {"ok", "fail"} :
         LET t == [NoTurn EXCEPT !.intent = "LaunchRequest",
                                    !.before = session_attributes, !.db = db]
             r == LaunchSetup(session_attributes, counters)
         IN IF db = "ok"
            THEN Return(r.sa, r.counters, patients,
                        Ask("opening", collection.opening), t, yes_confirmed)
            ELSE Return(session_attributes, counters, patients,
                        Ask("retrieve_error", retrieve_error_mg), t, yes_confirmed)

(***************************************************************************)
(* AMAZON.FallbackIntent (lines 1258-1275).                                *)
(***************************************************************************)
fallback_response(sa) ==
    LET question_data == get_next_question(sa.questions, sa.current_section, sa.current_question)
    IN IF sa.waiting_for_ready_confirmation
       THEN Ask("fallback_opening",
                IF IsNone(sa.questions) THEN "Are you ready to begin?"
                ELSE Get(sa.questions).opening)
       ELSE IF ~IsNone(question_data)
            THEN Ask("fallback_question", Get(question_data).question)
            ELSE Ask("fallback_repeat", "Could you repeat that?")

FallbackIntent ==
    Return(session_attributes, counters, patients, fallback_response(session_attributes),
           [NoTurn EXCEPT !.intent = "FallbackIntent", !.before = session_attributes],
           yes_confirmed)

(***************************************************************************)
(* CaptureAnswerIntent (lines 616-1254), phase by phase.                   *)
(***************************************************************************)

\* lines 655-666: the catalog was not in the session and has been loaded
SessionSetup(sa, ctrs, doc) ==
    LET s == get_next_sequence(ctrs, "session_id")
        p == get_next_sequence(s.counters, "patient_id")
    IN [ sa |-> [sa EXCEPT !.questions = Some(get_questions(doc)),
                           !.current_section = 0,
                           !.current_question = 0,
                           !.session_id = s.seq,
                           !.patient_id = p.seq,
                           !.patient_data = EmptyMap],
         counters |-> p.counters ]

\* lines 755-756 and 1002: the keys a pending follow-up must hold, and those
\* a pending follow-up lacks
required_keys == { "question_id", "followup_index", "question_title", "question_text" }

MissingKeys(pending) == required_keys \ DOMAIN pending

\* lines 673 and 694: in a follow-up, and not confirming it
InFollowupAnswer(sa) ==
    ~IsNone(sa.current_followup_for) /\ ~sa.awaiting_followup_confirmation

\* lines 826-850: the follow-ups are done, move to the next main question
AdvanceAfterFollowups(sa) ==
    LET sa1 == [sa EXCEPT !.current_followup_for = None,
                          !.awaiting_followup_confirmation = FALSE,
                          !.current_question = @ + 1]
        nq1 == get_next_question(sa1.questions, sa.current_section, sa1.current_question)
        sa2 == [sa1 EXCEPT !.current_section = @ + 1, !.current_question = 0]
        nq2 == get_next_question(sa2.questions, sa2.current_section, 0)
    IN IF ~IsNone(nq1)
       THEN [sa |-> sa1, response |-> Ask("next_question", Get(nq1).question)]
       ELSE IF ~IsNone(nq2)
            THEN [sa |-> sa2, response |-> Ask("next_question", Get(nq2).question)]
            ELSE [sa |-> sa2,
                  response |-> Speak("closing", Get(sa.questions).closing, "", FALSE, FALSE)]

\* a plausible slip: the section index is not incremented when the section
\* is exhausted
AdvanceAfterConfirmation_SameSection(sa, pending) ==
    LET sa1 == [sa EXCEPT !.awaiting_confirmation = FALSE,
                          !.current_question = pending.question_index + 1]
        nq1 == get_next_question(sa.questions, pending.section, sa1.current_question)
        sa2 == [sa1 EXCEPT !.current_question = 0]
        nq2 == get_next_question(sa.questions, sa2.current_section + 1, 0)
    IN IF ~IsNone(nq1)
       THEN [sa |-> sa1, response |-> Ask("next_question", Get(nq1).question)]
       ELSE IF ~IsNone(nq2)
            THEN [sa |-> sa2,
                  response |-> Speak("next_question", Get(nq2).question, "", TRUE, TRUE)]
            ELSE [sa |-> sa2,
                  response |-> Speak("closing", Get(sa.questions).closing, "", FALSE, FALSE)]

\* lines 942-974: no follow-up needed, move to the next main question
AdvanceAfterConfirmation(sa, pending) ==
    LET sa1 == [sa EXCEPT !.awaiting_confirmation = FALSE,
                          !.current_question = pending.question_index + 1]
        nq1 == get_next_question(sa.questions, pending.section, sa1.current_question)
        sa2 == [sa1 EXCEPT !.current_section = @ + 1, !.current_question = 0]
        nq2 == get_next_question(sa.questions, sa2.current_section, 0)
    IN IF ~IsNone(nq1)
       THEN [sa |-> sa1, response |-> Ask("next_question", Get(nq1).question)]
       ELSE IF ~IsNone(nq2)
            THEN [sa |-> sa2,
                  response |-> Speak("next_question", Get(nq2).question, "", TRUE, TRUE)]
            ELSE [sa |-> sa2,
                  response |-> Speak("closing", Get(sa.questions).closing, "", FALSE, FALSE)]

\* lines 1076-1119: a yes/no question is done, move to the next main question
\* (the acknowledgement spoken before the question after a NO is not modelled)
AdvanceAfterDecision(sa) ==
    LET sa1 == [sa EXCEPT !.current_question = @ + 1]
        nq1 == get_next_question(sa1.questions, sa1.current_section, sa1.current_question)
        sa2 == [sa1 EXCEPT !.current_section = @ + 1, !.current_question = 0]
        nq2 == get_next_question(sa2.questions, sa2.current_section, 0)
    IN IF ~IsNone(nq1)
       THEN [sa |-> sa1, response |-> Ask("next_question", Get(nq1).question)]
       ELSE IF ~IsNone(nq2)
            THEN [sa |-> sa2, response |-> Ask("next_question", Get(nq2).question)]
            ELSE [sa |-> sa2,
                  response |-> Speak("closing", Get(sa.questions).closing, "", FALSE, FALSE)]

\* a plausible slip: a failed validation call rejects the answer
validate_with_gemini_FailureRejects(verdict, value, slot_value) ==
    CASE verdict = "VALID|" -> [is_valid |-> TRUE, result |-> value]
      [] verdict = "INVALID|" -> [is_valid |-> FALSE, result |-> value]
      [] verdict = "VALID" -> [is_valid |-> TRUE, result |-> slot_value]
      [] OTHER -> [is_valid |-> FALSE, result |-> slot_value]

\* validate_with_gemini (lines 426-446): (is_valid, result)
validate_with_gemini(verdict, value, slot_value) ==
    CASE verdict = "VALID|" -> [is_valid |-> TRUE, result |-> value]
      [] verdict = "INVALID|" -> [is_valid |-> FALSE, result |-> value]
      [] OTHER -> [is_valid |-> TRUE, result |-> slot_value]

\* what Gemini may answer to a validation: a bare VALID, VALID|text,
\* INVALID|reworded question, or an exception
Verdicts ==
    { <<"VALID", "-">>, <<"ERROR", "-">>, <<"INVALID|", "Could you say that again?">> }
    \cup { <<"VALID|", g>> : g \in FormattedValues }

\* extract_information_with_gemini (lines 472-478): Gemini's text, or the
\* response itself when the call fails or returns no text
extract_information_with_gemini(extraction, user_response) ==
    IF extraction = "ERROR" THEN user_response ELSE extraction

Extractions == Details \cup {"ERROR"}

\* the branch of lines 1123-1200 a slot name takes
SlotBranch(slot_name) ==
    CASE slot_name \in NO_CONFIRMATION_SLOTS -> "no_confirmation"
      [] slot_name \in FREE_TEXT_SLOTS -> "free_text"
      [] slot_name = "date_of_birth" -> "date_of_birth"
      [] slot_name = "name" -> "name"
      [] slot_name = "gender" -> "gender"
      [] slot_name = "email" -> "email"
      [] slot_name \in {"contact_number", "emergency_contact_phone"} -> "phone"
      [] slot_name = "emergency_contact" -> "emergency_contact"
      [] slot_name = "emergency_contact_relationship" -> "relationship"
      [] slot_name \in {"surgeries_date", "immunizations_date"} -> "date"
      [] OTHER -> "other"

\* the local normalisation of a slot before any validation
LocalNormalise(branch, final_response) ==
    CASE branch \in {"name", "emergency_contact"} -> Title(final_response)
      [] branch = "gender" -> GenderMap(final_response)
      [] branch = "email" -> EmailNormalise(final_response)
      [] branch = "phone" -> PhoneNormalise(final_response)
      [] OTHER -> final_response

\* whether the branch calls validate_with_gemini on the normalised value
NeedsValidation(branch, normalised) ==
    CASE branch = "date_of_birth" -> ~DobFormatOk(normalised)
      [] branch = "email" -> ~EmailFormatOk(normalised)
      [] branch = "phone" -> ~PhoneFormatOk(normalised)
      [] branch \in {"date", "other"} -> TRUE
      [] OTHER -> FALSE

\* final_response after a validation that did not return INVALID: the email
\* and phone branches drop Gemini's result, the date branch cleans it
FinalAfterValidation(branch, normalised, result) ==
    CASE branch \in {"email", "phone"} -> normalised
      [] branch = "date" -> DateClean(result)
      [] OTHER -> result

\* lines 1202-1254: keep the answer as pending and ask for confirmation
PendingAnswer(cqd, final_response, current_section, current_question) ==
    [ question_id |-> cqd.question_id,
      question_title |-> cqd.question_title,
      question_text |-> cqd.question,
      response |-> final_response,
      section |-> current_section,
      question_index |-> current_question ]

ConfirmationPrompt(slot_name, final_response) ==
    LET spoken_version ==
            IF slot_name \in {"surgeries_date", "immunizations_date"}
            THEN format_date_for_speech(final_response) ELSE final_response
    IN IF slot_name \in FREE_TEXT_SLOTS
       THEN Prompt("FREE_TEXT_CONFIRMATIONS", "-", spoken_version)
       ELSE Prompt("STRUCTURED_CONFIRMATIONS", slot_name, spoken_version)

\* a plausible slip: the answer is stored when it is read back, not on YES
AskConfirmation_StoresAnswer(sa, cqd, slot_name, final_response, current_section, current_question) ==
    LET prompt == ConfirmationPrompt(slot_name, final_response)
    IN [ sa |-> [sa EXCEPT
                   !.unconfirmed_answer =
                       Some(PendingAnswer(cqd, final_response, current_section, current_question)),
                   !.awaiting_confirmation = TRUE,
                   !.confirmation_prompt = Some(prompt),
                   !.patient_data =
                       PutAnswer(@, cqd.question_id, cqd.question_title, final_response)],
         response |-> Speak("confirmation", "", prompt.slot_value, FALSE, TRUE) ]

AskConfirmation(sa, cqd, slot_name, final_response, current_section, current_question) ==
    LET prompt == ConfirmationPrompt(slot_name, final_response)
    IN [ sa |-> [sa EXCEPT
                   !.unconfirmed_answer =
                       Some(PendingAnswer(cqd, final_response, current_section, current_question)),
                   !.awaiting_confirmation = TRUE,
                   !.confirmation_prompt = Some(prompt)],
         response |-> Speak("confirmation", "", prompt.slot_value, FALSE, TRUE) ]

\* lines 1044-1057: YES with a detail; follow_ups is not empty
DetailPending(sa, cqd, slot_name, detail) ==
    [sa EXCEPT
       !.current_followup_for = Some(cqd.question_id),
       !.unconfirmed_followup =
           Some([ question_id |-> cqd.question_id,
                  question_text |-> cqd.follow_up[1].question,
                  question_title |-> cqd.follow_up[1].question_title,
                  response |-> detail,
                  followup_index |-> 0 ]),
       !.confirmation_prompt = Some(Prompt("You mentioned", "-", detail)),
       !.awaiting_followup_confirmation = TRUE]

\* a plausible slip: the follow-up list is not stored in the session
FollowupsQueued_ListNotStored(sa, cqd) ==
    [sa EXCEPT
       !.current_followup_for = Some(cqd.question_id),
       !.unconfirmed_followup =
           Some([ question_id |-> cqd.question_id,
                  question_text |-> cqd.follow_up[1].question,
                  question_title |-> cqd.follow_up[1].question_title,
                  response |-> "",
                  followup_index |-> 0 ]),
       !.awaiting_followup_confirmation = FALSE]

\* lines 1059-1071: YES without a detail, follow-ups exist
FollowupsQueued(sa, cqd) ==
    [sa EXCEPT
       !.current_followup_for = Some(cqd.question_id),
       !.followups = (cqd.question_id :> cqd.follow_up) @@ @,
       !.unconfirmed_followup =
           Some([ question_id |-> cqd.question_id,
                  question_text |-> cqd.follow_up[1].question,
                  question_title |-> cqd.follow_up[1].question_title,
                  response |-> "",
                  followup_index |-> 0 ]),
       !.awaiting_followup_confirmation = FALSE]

\* lines 1026-1119: a yes/no question, answered without a confirmation turn
NoConfirmationPhase(sa, ctrs, store, t0, cqd, slot_name, yc) ==
    \E decision \in Decisions :
    \E detail \in (IF decision = "YES" THEN {None} \cup {Some(g) : g \in Details}
                   ELSE {None}) :
        LET t == [t0 EXCEPT !.parse = decision, !.detail = detail]
            sa1 == [sa EXCEPT !.patient_data =
                       PutAnswer(@, cqd.question_id, slot_name, Lower(decision))]
            store1 == save_patient_data(store, sa1)
            adv == AdvanceAfterDecision(sa1)
        IN IF decision = "YES" /\ ~IsNone(detail)
           THEN IF cqd.follow_up = <<>>
                THEN Raise(ctrs, store1, t)      \* follow_ups[0]: IndexError
                ELSE Return(DetailPending(sa1, cqd, slot_name, Get(detail)), ctrs, store1,
                            Speak("detail_confirmation", "", Get(detail), FALSE, TRUE), t, yc)
           ELSE IF decision = "YES" /\ cqd.follow_up # <<>>
                THEN Return(FollowupsQueued(sa1, cqd), ctrs, store1,
                            Ask("first_followup", cqd.follow_up[1].question), t, yc)
                ELSE Return(adv.sa, ctrs, store1, adv.response, t, yc)

\* a plausible slip: a rejected answer is kept as the pending answer
ConfirmedSlotPhase_InvalidKeepsAnswer(sa, ctrs, store, t0, cqd, slot_name, slot_value, cs, cq, yc) ==
    LET branch == SlotBranch(slot_name)
        done(final_response, t) ==
            LET r == AskConfirmation(sa, cqd, slot_name, final_response, cs, cq)
            IN Return(r.sa, ctrs, store, r.response, t, yc)
        named(final_response, t) ==
            LET r == AskConfirmation(
                        [sa EXCEPT !.patient_first_name = Some(FirstNameOf(slot_value))],
                        cqd, slot_name, final_response, cs, cq)
            IN Return(r.sa, ctrs, store, r.response, t, yc)
        normalised == LocalNormalise(branch, slot_value)
    IN IF branch \in {"free_text", "relationship"}
       THEN \E x \in Extractions :
               done(extract_information_with_gemini(x, slot_value),
                    [t0 EXCEPT !.extraction = x])
       ELSE IF branch \in {"name", "emergency_contact"} /\ WordCount(slot_value) < 2
       THEN Return(sa, ctrs, store, Ask("full_name", "Please tell me your full name."), t0, yc)
       ELSE IF branch = "name"
       THEN named(normalised, t0)
       ELSE IF NeedsValidation(branch, normalised)
       THEN \E v \in Verdicts :
               LET t == [t0 EXCEPT !.verdict = v[1], !.value = v[2]]
                   r == validate_with_gemini(v[1], v[2], normalised)
               IN IF ~r.is_valid
                  THEN Return(AskConfirmation(sa, cqd, slot_name, normalised, cs, cq).sa,
                              ctrs, store, Ask("reworded", r.result), t, yc)
                  ELSE done(FinalAfterValidation(branch, normalised, r.result), t)
       ELSE done(normalised, t0)

\* lines 1122-1254: every other slot
ConfirmedSlotPhase(sa, ctrs, store, t0, cqd, slot_name, slot_value, cs, cq, yc) ==
    LET branch == SlotBranch(slot_name)
        done(final_response, t) ==
            LET r == AskConfirmation(sa, cqd, slot_name, final_response, cs, cq)
            IN Return(r.sa, ctrs, store, r.response, t, yc)
        named(final_response, t) ==
            LET r == AskConfirmation(
                        [sa EXCEPT !.patient_first_name = Some(FirstNameOf(slot_value))],
                        cqd, slot_name, final_response, cs, cq)
            IN Return(r.sa, ctrs, store, r.response, t, yc)
        normalised == LocalNormalise(branch, slot_value)
    IN IF branch \in {"free_text", "relationship"}
       THEN \E x \in Extractions :
               done(extract_information_with_gemini(x, slot_value),
                    [t0 EXCEPT !.extraction = x])
       ELSE IF branch \in {"name", "emergency_contact"} /\ WordCount(slot_value) < 2
       THEN Return(sa, ctrs, store, Ask("full_name", "Please tell me your full name."), t0, yc)
       ELSE IF branch = "name"
       THEN named(normalised, t0)
       ELSE IF NeedsValidation(branch, normalised)
       THEN \E v \in Verdicts :
               LET t == [t0 EXCEPT !.verdict = v[1], !.value = v[2]]
                   r == validate_with_gemini(v[1], v[2], normalised)
               IN IF ~r.is_valid
                  THEN Return(sa, ctrs, store, Ask("reworded", r.result), t, yc)
                  ELSE done(FinalAfterValidation(branch, normalised, r.result), t)
       ELSE done(normalised, t0)

\* lines 1023-1254: "Normal validation" of the slot value as a main answer
MainAnswerPhase(sa, ctrs, store, t, cqd, slot_name, slot_value, cs, cq, yc) ==
    IF SlotBranch(slot_name) = "no_confirmation"
    THEN NoConfirmationPhase(sa, ctrs, store, t, cqd, slot_name, yc)
    ELSE ConfirmedSlotPhase(sa, ctrs, store, t, cqd, slot_name, slot_value, cs, cq, yc)

\* a plausible slip: the utterance is not kept as the follow-up's response
FollowupPending_KeepsOldResponse(unconfirmed, normalised_response) ==
    unconfirmed

\* lines 994-1021: the slot value is the answer to the pending follow-up
FollowupPending(unconfirmed, normalised_response) ==
    [unconfirmed EXCEPT !.response = normalised_response]

FollowupAnswerPhase(sa, ctrs, store, t0, slot_value, yc) ==
    IF IsNone(sa.unconfirmed_followup) \/ MissingKeys(Get(sa.unconfirmed_followup)) # {}
    THEN \* the safety check of lines 1002-1006
         Return([sa EXCEPT !.unconfirmed_followup = None,
                           !.awaiting_followup_confirmation = FALSE], ctrs, store,
                Ask("followup_invalid", "Sorry, something went wrong. Can you repeat that?"),
                t0, yc)
    ELSE \E x \in Extractions :
            LET normalised_response == extract_information_with_gemini(x, slot_value)
                prompt == Prompt("Just to confirm, you meant", "-", normalised_response)
            IN Return([sa EXCEPT
                         !.unconfirmed_followup =
                             Some(FollowupPending(Get(@), normalised_response)),
                         !.awaiting_followup_confirmation = TRUE,
                         !.confirmation_prompt = Some(prompt)],
                      ctrs, store,
                      Speak("followup_confirmation", "", normalised_response, FALSE, TRUE),
                      [t0 EXCEPT !.extraction = x], yc)

\* lines 984-1254: the repeat check (its result is not used: `rephrased` is
\* assigned and never read), then the follow-up answer or the main answer
AnswerPhase(sa, ctrs, store, t0, cqd, slot_name, slot_value, cs, cq, yc) ==
    \E repeat \in {"yes", "no"} :
        LET t == [t0 EXCEPT !.repeat = repeat]
        IN IF InFollowupAnswer(sa)
           THEN FollowupAnswerPhase(sa, ctrs, store, t, slot_value, yc)
           ELSE MainAnswerPhase(sa, ctrs, store, t, cqd, slot_name, slot_value, cs, cq, yc)

\* lines 873-889: YES commits the pending main answer
CommitAnswer(sa, pending, response_value) ==
    [sa EXCEPT !.unconfirmed_answer = None,
               !.patient_data =
                   PutAnswer(@, pending.question_id, pending.question_title, response_value)]

\* a plausible slip: an unclear reply drops the pending answer
ConfirmationPhase_UnclearDiscards(sa, ctrs, store, t0, slot_value, second, yc) ==
    \E decision \in Decisions :
        LET t1 == IF second THEN [t0 EXCEPT !.decision2 = decision]
                  ELSE [t0 EXCEPT !.decision = decision]
        IN IF decision = "YES"
           THEN IF IsNone(sa.unconfirmed_answer)
                THEN Raise(ctrs, store, t1)       \* pop("unconfirmed_answer"): KeyError
                ELSE LET pending == Get(sa.unconfirmed_answer)
                     IN \E x \in (IF pending.section >= 2 THEN Extractions ELSE {"-"}) :
                           LET response_value ==
                                   IF pending.section >= 2
                                   THEN extract_information_with_gemini(x, pending.response)
                                   ELSE pending.response
                               sa1 == CommitAnswer(sa, pending, response_value)
                               adv == AdvanceAfterConfirmation(sa1, pending)
                           IN Return(adv.sa, ctrs, save_patient_data(store, sa1), adv.response,
                                     [t1 EXCEPT !.extraction = x],
                                     yc \cup {pending.question_id})
           ELSE IF decision = "NO"
           THEN IF IsNone(sa.unconfirmed_answer)
                THEN Raise(ctrs, store, t1)
                ELSE Return([sa EXCEPT !.awaiting_confirmation = FALSE], ctrs, store,
                            Ask("retry_answer", Get(sa.unconfirmed_answer).question_text),
                            t1, yc)
           ELSE Return([sa EXCEPT !.unconfirmed_answer = None], ctrs, store,
                       Ask("confirm_again", "Sorry, could you confirm?"), t1, yc)

\* lines 867-982: the confirmation of a main answer.  pending.get("follow_up")
\* is always empty (lines 1203-1210 store no such key), so lines 894-940 are
\* never entered.
ConfirmationPhase(sa, ctrs, store, t0, slot_value, second, yc) ==
    \E decision \in Decisions :
        LET t1 == IF second THEN [t0 EXCEPT !.decision2 = decision]
                  ELSE [t0 EXCEPT !.decision = decision]
        IN IF decision = "YES"
           THEN IF IsNone(sa.unconfirmed_answer)
                THEN Raise(ctrs, store, t1)       \* pop("unconfirmed_answer"): KeyError
                ELSE LET pending == Get(sa.unconfirmed_answer)
                     IN \E x \in (IF pending.section >= 2 THEN Extractions ELSE {"-"}) :
                           LET response_value ==
                                   IF pending.section >= 2
                                   THEN extract_information_with_gemini(x, pending.response)
                                   ELSE pending.response
                               sa1 == CommitAnswer(sa, pending, response_value)
                               adv == AdvanceAfterConfirmation(sa1, pending)
                           IN Return(adv.sa, ctrs, save_patient_data(store, sa1), adv.response,
                                     [t1 EXCEPT !.extraction = x],
                                     yc \cup {pending.question_id})
           ELSE IF decision = "NO"
           THEN IF IsNone(sa.unconfirmed_answer)
                THEN Raise(ctrs, store, t1)
                ELSE Return([sa EXCEPT !.awaiting_confirmation = FALSE], ctrs, store,
                            Ask("retry_answer", Get(sa.unconfirmed_answer).question_text),
                            t1, yc)
           ELSE Return(sa, ctrs, store, Ask("confirm_again", "Sorry, could you confirm?"), t1, yc)

\* a plausible slip: the follow-up answer is stored under the main question's id
CommitFollowup_UnderQuestionId(sa, pending) ==
    [sa EXCEPT !.unconfirmed_followup = None,
               !.awaiting_followup_confirmation = FALSE,
               !.current_followup_for = None,
               !.patient_data =
                   PutAnswer(@, pending.question_id, pending.question_title, pending.response)]

\* lines 780-790: YES commits the pending follow-up answer
CommitFollowup(sa, pending) ==
    [sa EXCEPT !.unconfirmed_followup = None,
               !.awaiting_followup_confirmation = FALSE,
               !.current_followup_for = None,
               !.patient_data =
                   PutAnswer(@, FollowupId(pending.question_id, pending.followup_index),
                             pending.question_title, pending.response)]

\* lines 807-819: the next queued follow-up becomes the pending one
NextFollowup(sa, pending, followup_list) ==
    LET next_index == pending.followup_index + 1
        next_followup == followup_list[next_index + 1]
    IN [sa EXCEPT
          !.unconfirmed_followup =
              Some([ question_id |-> pending.question_id,
                     question_text |-> next_followup.question,
                     question_title |-> next_followup.question_title,
                     response |-> "",
                     followup_index |-> next_index ]),
          !.current_followup_for = Some(pending.question_id),
          !.awaiting_followup_confirmation = FALSE]

\* a plausible slip: the rejected answer is kept in the pending follow-up
RejectFollowup_KeepsResponse(sa, pending) ==
    [sa EXCEPT
       !.awaiting_followup_confirmation = FALSE,
       !.current_followup_for = None,
       !.unconfirmed_followup =
           Some([ question_id |-> pending.question_id,
                  question_text |-> pending.question_text,
                  question_title |-> pending.question_title,
                  followup_index |-> pending.followup_index,
                  response |-> pending.response ])]

\* lines 853-864: NO re-asks the follow-up
RejectFollowup(sa, pending) ==
    [sa EXCEPT
       !.awaiting_followup_confirmation = FALSE,
       !.current_followup_for = None,
       !.unconfirmed_followup =
           Some([ question_id |-> pending.question_id,
                  question_text |-> pending.question_text,
                  question_title |-> pending.question_title,
                  followup_index |-> pending.followup_index,
                  response |-> "" ])]

\* lines 747-864: the confirmation of a follow-up answer.  A decision that
\* is none of YES, NO, UNCLEAR leaves both branches and runs on into the
\* phases below with slot_name set to the follow-up's title (line 778).
FollowupConfirmationPhase(sa, ctrs, store, t0, cqd, slot_value, cs, cq, yc) ==
    IF IsNone(sa.unconfirmed_followup)
    THEN Raise(ctrs, store, t0)                   \* `key not in None`: TypeError
    ELSE IF MissingKeys(Get(sa.unconfirmed_followup)) # {}
    THEN \* lines 755-763: nothing is cleared
         Return(sa, ctrs, store,
                Ask("followup_missing_keys",
                    "I am sorry, but something went wrong. Could you repeat your answer?"),
                t0, yc)
    ELSE
    \E decision \in Decisions :
        LET t == [t0 EXCEPT !.decision = decision]
            pending == Get(sa.unconfirmed_followup)
            sa1 == CommitFollowup(sa, pending)
            store1 == save_patient_data(store, sa1)
            followup_list == FollowupList(sa, pending.question_id)
            adv == AdvanceAfterFollowups(sa1)
        IN IF decision = "UNCLEAR"
           THEN Return(sa, ctrs, store,
                       Ask("confirm_followup_again", "Sorry, can you confirm your answer?"), t, yc)
           ELSE IF decision = "YES"
           THEN IF pending.followup_index + 1 < Len(followup_list)
                THEN Return(NextFollowup(sa1, pending, followup_list), ctrs, store1,
                            Ask("next_followup",
                                followup_list[pending.followup_index + 2].question),
                            t, yc \cup {FollowupId(pending.question_id, pending.followup_index)})
                ELSE Return(adv.sa, ctrs, store1, adv.response, t,
                            yc \cup {FollowupId(pending.question_id, pending.followup_index)})
           ELSE IF decision = "NO"
           THEN Return(RejectFollowup(sa, pending), ctrs, store,
                       Ask("retry_followup", pending.question_text), t, yc)
           ELSE IF sa.awaiting_confirmation
                THEN ConfirmationPhase(sa, ctrs, store, t, slot_value, TRUE, yc)
                ELSE AnswerPhase(sa, ctrs, store, t, cqd, pending.question_title,
                                 slot_value, cs, cq, yc)

\* a plausible slip: the readiness flag is left set
StartInterview_StillWaiting(sa) ==
    [sa EXCEPT !.current_section = 0,
               !.current_question = 0]

\* lines 727-730: the patient is ready
StartInterview(sa) ==
    [sa EXCEPT !.waiting_for_ready_confirmation = FALSE,
               !.current_section = 0,
               !.current_question = 0]

\* a plausible slip: an unclear reply hears the opening of the catalog again
ReadinessPhase_RepeatsOpening(sa, ctrs, store, t0, yc) ==
    \E decision \in Decisions :
        LET t == [t0 EXCEPT !.decision = decision]
            next_question == get_next_question(sa.questions, 0, 0)
        IN IF decision = "YES"
           THEN IF IsNone(next_question)
                THEN Raise(ctrs, store, t)
                ELSE Return(StartInterview(sa), ctrs, store,
                            Ask("first_question", Get(next_question).question), t, yc)
           ELSE IF decision = "NO"
           THEN Return(sa, ctrs, store,
                       Ask("wait_ready", "That's okay. Let me know when you're ready."), t, yc)
           ELSE Return(sa, ctrs, store,
                       Ask("opening_rephrase", Get(sa.questions).opening), t, yc)

\* lines 717-745: the readiness confirmation after the opening
ReadinessPhase(sa, ctrs, store, t0, yc) ==
    \E decision \in Decisions :
        LET t == [t0 EXCEPT !.decision = decision]
            next_question == get_next_question(sa.questions, 0, 0)
        IN IF decision = "YES"
           THEN IF IsNone(next_question)
                THEN Raise(ctrs, store, t)        \* next_question['question'] on None
                ELSE Return(StartInterview(sa), ctrs, store,
                            Ask("first_question", Get(next_question).question), t, yc)
           ELSE IF decision = "NO"
           THEN Return(sa, ctrs, store,
                       Ask("wait_ready", "That's okay. Let me know when you're ready."), t, yc)
           ELSE \E rephrased_output \in OPENING_REPHRASES :
                   Return(sa, ctrs, store, Ask("opening_rephrase", rephrased_output), t, yc)

\* lines 667-716 and the order of the phases
Turn(sa, ctrs, store, t0, yc) ==
    LET current_section == sa.current_section
        current_question == sa.current_question
        current_question_data == get_next_question(sa.questions, current_section, current_question)
        from_followup == InFollowupAnswer(sa) /\ ~IsNone(sa.unconfirmed_followup)
        titled == from_followup /\ "question_title" \in DOMAIN Get(sa.unconfirmed_followup)
        overridden == titled /\ "question_text" \in DOMAIN Get(sa.unconfirmed_followup)
    IN IF IsNone(current_question_data) /\ ~overridden
       THEN Raise(ctrs, store, t0)                \* current_question_data.get on None
       ELSE IF IsNone(current_question_data)
       THEN Return(sa, ctrs, store,
                   Speak("no_further", "No further questions. Thank you.", "", FALSE, FALSE),
                   t0, yc)
       ELSE
       \E slot_value \in {None} \cup {Some(u) : u \in Utterances} :
           LET t == [t0 EXCEPT !.slot_value = slot_value]
               cqd == Get(current_question_data)
               slot_name == IF titled THEN Get(sa.unconfirmed_followup).question_title
                            ELSE cqd.question_title
           IN IF IsNone(slot_value)
              THEN Return(sa, ctrs, store, Ask("repeat_slot", slot_name), t, yc)
              ELSE IF sa.waiting_for_ready_confirmation
              THEN ReadinessPhase(sa, ctrs, store, t, yc)
              ELSE IF sa.awaiting_followup_confirmation
              THEN FollowupConfirmationPhase(sa, ctrs, store, t, cqd, Get(slot_value),
                                             current_section, current_question, yc)
              ELSE IF sa.awaiting_confirmation
              THEN ConfirmationPhase(sa, ctrs, store, t, Get(slot_value), FALSE, yc)
              ELSE AnswerPhase(sa, ctrs, store, t, cqd, slot_name, Get(slot_value),
                               current_section, current_question, yc)

CaptureAnswerIntent ==
    LET t0 == [NoTurn EXCEPT !.intent = "CaptureAnswerIntent",
                             !.before = session_attributes]
        setup == SessionSetup(session_attributes, counters, collection)
    IN IF IsNone(session_attributes.questions)
       THEN \E db \in {"ok", "fail"} :
               IF db = "fail"
               THEN Return(session_attributes, counters, patients,
                           Ask("retrieve_error", retrieve_error_mg),
                           [t0 EXCEPT !.db = db], yes_confirmed)
               ELSE Turn(setup.sa, setup.counters, patients, [t0 EXCEPT !.db = db],
                         yes_confirmed)
       ELSE Turn(session_attributes, counters, patients, t0, yes_confirmed)

(***************************************************************************)
(* The specification.                                                      *)
(***************************************************************************)
Init ==
    /\ collection \in Catalogs
    /\ counters = [session_id |-> 0, patient_id |-> 0]
    /\ patients = EmptyMap
    /\ session_attributes = NoSession
    /\ response = NoResponse
    /\ turn = NoTurn
    /\ yes_confirmed = {}
    /\ allocated = [s \in ConcurrentSessions |-> <<>>]
    /\ saving = [e \in Executions |-> NotSaving]

Next ==
    \/ LaunchRequest
    \/ CaptureAnswerIntent
    \/ FallbackIntent

Spec == Init /\ [][Next]_vars

(***************************************************************************)
(* Sessions that run at the same time against the one counters collection. *)
(* Each get_next_sequence call is one find_one_and_update, which the server *)
(* applies to the counter document as a single step; a session makes its    *)
(* calls in the order of lines 598-599 and 663-664, and the calls of the    *)
(* sessions interleave freely.                                              *)
(***************************************************************************)
Allocate(s) ==
    /\ Len(allocated[s]) < Len(AllocationOrder)
    /\ LET name == AllocationOrder[Len(allocated[s]) + 1]
           r == get_next_sequence(counters, name)
       IN /\ counters' = r.counters
          /\ allocated' = [allocated EXCEPT ![s] =
                 Append(@, [name |-> name, before |-> counters[name], seq |-> r.seq])]
    /\ UNCHANGED <<collection, patients, session_attributes, response, turn, yes_confirmed,
                   saving>>

SeqNext == \E s \in ConcurrentSessions : Allocate(s)

SeqSpec == Init /\ [][SeqNext]_vars

SaveNext ==
    \E e \in Executions :
        \/ SaveCall(e)
        \/ SaveUpdateOne(e)
        \/ SavePush(e)

SaveSpec == Init /\ [][SaveNext]_vars

(***************************************************************************)
(* The session attributes are not kept by the handler: they leave with     *)
(* each response and come back inside the next request (line 618).  The    *)
(* checks of lines 755-763 and 1002-1006 are written for a pending         *)
(* follow-up that comes back without one of its keys; here that happens    *)
(* once, between two turns of a session that is in a follow-up mode.       *)
(***************************************************************************)
LosePendingKey ==
    /\ ~session_attributes.waiting_for_ready_confirmation
    /\ \/ session_attributes.awaiting_followup_confirmation
       \/ /\ ~IsNone(session_attributes.current_followup_for)
          /\ ~session_attributes.awaiting_confirmation
    /\ ~IsNone(session_attributes.unconfirmed_followup)
    /\ MissingKeys(Get(session_attributes.unconfirmed_followup)) = {}
    /\ \E key \in required_keys :
          LET pending == Get(session_attributes.unconfirmed_followup)
          IN session_attributes' =
                [session_attributes EXCEPT !.unconfirmed_followup =
                    Some([k \in (DOMAIN pending) \ {key} |-> pending[k]])]
    /\ turn' = [NoTurn EXCEPT !.intent = "-lost-", !.before = session_attributes]
    /\ UNCHANGED <<collection, counters, patients, response, yes_confirmed, allocated,
                   saving>>

LossNext ==
    \/ LaunchRequest
    \/ CaptureAnswerIntent
    \/ FallbackIntent
    \/ LosePendingKey

LossSpec == Init /\ [][LossNext]_vars

(***************************************************************************)
(* The cooperative run: the session starts with a launch, every turn after *)
(* it brings a slot value, the catalog is found, no gateway call fails, no *)
(* repeat is requested, every validation is VALID, every readiness and     *)
(* confirmation reply is YES and every yes/no answer is YES or NO.  The    *)
(* patient goes on answering for as long as the skill takes a turn.        *)
(***************************************************************************)
Cooperative(t) ==
    /\ t.db \in { "ok", "-" }
    /\ t.intent = "CaptureAnswerIntent" => ~IsNone(t.slot_value)
    /\ t.decision \in { "YES", "-" }
    /\ t.decision2 \in { "YES", "-" }
    /\ t.repeat \in { "no", "-" }
    /\ t.parse \in { "YES", "NO", "-" }
    /\ t.verdict \in { "VALID", "VALID|", "-" }
    /\ t.extraction # "ERROR"

CoopLaunch == LaunchRequest /\ Cooperative(turn')

CoopAnswer == turn.intent # "-" /\ CaptureAnswerIntent /\ Cooperative(turn')

CoopNext ==
    \/ CoopLaunch
    \/ CoopAnswer

CoopSpec == Init /\ [][CoopNext]_vars /\ WF_vars(CoopNext)

(***************************************************************************)
(* Properties.                                                             *)
(***************************************************************************)
Before == turn.before

Now == session_attributes

\* the main questions of the catalog as get_questions returns it
MainQuestions ==
    LET sections == get_questions(collection).sections
    IN UNION { { sections[s][q] : q \in DOMAIN sections[s] } : s \in DOMAIN sections }

\* a CaptureAnswerIntent turn that found the catalog, a question at the
\* pointer and a slot value, and so went on to one of the phases
Answered == turn.intent = "CaptureAnswerIntent" /\ ~IsNone(turn.slot_value)

\* the phase such a turn starts in, from the attributes it started from
AwaitingReadiness == Answered /\ Before.waiting_for_ready_confirmation

AwaitingFollowupConfirmation ==
    Answered /\ ~Before.waiting_for_ready_confirmation /\ Before.awaiting_followup_confirmation

AwaitingConfirmation ==
    /\ Answered
    /\ ~Before.waiting_for_ready_confirmation
    /\ ~Before.awaiting_followup_confirmation
    /\ Before.awaiting_confirmation

AwaitingFollowupAnswer ==
    /\ Answered
    /\ ~Before.waiting_for_ready_confirmation
    /\ ~Before.awaiting_followup_confirmation
    /\ ~Before.awaiting_confirmation
    /\ ~IsNone(Before.current_followup_for)

AwaitingAnswer ==
    /\ Answered
    /\ ~Before.waiting_for_ready_confirmation
    /\ ~Before.awaiting_followup_confirmation
    /\ ~Before.awaiting_confirmation
    /\ IsNone(Before.current_followup_for)

\* the question at the pointer the turn started from (the catalog is loaded
\* by then)
QuestionBefore ==
    get_next_question(Some(get_questions(collection)),
                      Before.current_section, Before.current_question)

Pointer(sa) == <<sa.current_section, sa.current_question>>

\* C1: the id of a main question outside NO_CONFIRMATION_SLOTS is in
\* patient_data only if a YES was given at the confirmation of its pending
\* answer.
C1_MainAnswerOnlyAfterYes ==
    \A q \in MainQuestions :
        (q.question_title \notin NO_CONFIRMATION_SLOTS
         /\ q.question_id \in DOMAIN Now.patient_data)
        => q.question_id \in yes_confirmed

C1_Witness ==
    \E q \in MainQuestions :
        /\ q.question_title \notin NO_CONFIRMATION_SLOTS
        /\ q.question_id \in DOMAIN Now.patient_data
        /\ AwaitingConfirmation
        /\ turn.decision = "YES"

\* C2: a yes/no question's decision is in patient_data under the question_id
\* at the end of the turn that classified the answer, and the follow-up id
\* "{question_id}_0" is in patient_data only after a YES at a follow-up
\* confirmation.
C2_DecisionAtOnceDetailAfterYes ==
    /\ (AwaitingAnswer /\ turn.parse # "-")
       => LET q == Get(QuestionBefore)
          IN /\ q.question_id \in DOMAIN Now.patient_data
             /\ Now.patient_data[q.question_id] = <<q.question_title, Lower(turn.parse)>>
    /\ \A q \in MainQuestions :
          FollowupId(q.question_id, 0) \in DOMAIN Now.patient_data
          => FollowupId(q.question_id, 0) \in yes_confirmed

\* the order of two pointers
NotBackward(p1, p2) == p2[1] > p1[1] \/ (p2[1] = p1[1] /\ p2[2] >= p1[2])

\* C3: the pointer never moves backward, and a NO leaves it where it was.
C3_PointerMonotonic ==
    /\ NotBackward(Pointer(Before), Pointer(Now))
    /\ (Answered /\ (turn.decision = "NO" \/ turn.decision2 = "NO"))
       => Pointer(Now) = Pointer(Before)

C3_Witness ==
    /\ AwaitingConfirmation
    /\ turn.decision = "NO"
    /\ Pointer(Now) = <<0, 1>>

\* C4: every turn ends with a spoken response; none ends in an exception.
C4_NoUnhandledException == response.kind # "EXCEPTION"

\* the pointer of a loaded catalog is past its last question
Exhausted(sa) ==
    /\ ~IsNone(sa.questions)
    /\ IsNone(get_next_question(sa.questions, sa.current_section, sa.current_question))

\* C5: the closing statement is spoken only with the pointer past the last
\* question, and a CaptureAnswerIntent turn that starts there answers that
\* there are no further questions and changes nothing.
C5_TerminalStays ==
    /\ response.kind = "closing" => Exhausted(Now)
    /\ (turn.intent = "CaptureAnswerIntent" /\ Exhausted(Before))
       => /\ response.kind = "no_further"
          /\ Now = Before

\* the next pointer and question, worked out from a pointer alone
Resolution(sa) ==
    LET same == get_next_question(Now.questions, sa.current_section, sa.current_question + 1)
        next == get_next_question(Now.questions, sa.current_section + 1, 0)
    IN IF ~IsNone(same)
       THEN [pointer |-> <<sa.current_section, sa.current_question + 1>>, question |-> same]
       ELSE [pointer |-> <<sa.current_section + 1, 0>>, question |-> next]

CompletedByConfirmation ==
    /\ response.kind # "EXCEPTION"
    /\ \/ AwaitingConfirmation /\ turn.decision = "YES"
       \/ AwaitingFollowupConfirmation /\ turn.decision2 = "YES"

CompletedByLastFollowup ==
    /\ AwaitingFollowupConfirmation
    /\ turn.decision = "YES"
    /\ response.kind \in {"next_question", "closing"}

CompletedByDecision ==
    /\ Answered
    /\ turn.parse # "-"
    /\ response.kind \in {"next_question", "closing"}

Resolved ==
    LET r == Resolution(Before)
    IN /\ Pointer(Now) = r.pointer
       /\ IF IsNone(r.question)
          THEN response.kind = "closing" /\ response.text = Get(Now.questions).closing
          ELSE response.kind = "next_question" /\ response.text = Get(r.question).question

\* C6: every turn that completes a main question (YES at its confirmation,
\* YES at the confirmation of its last follow-up, a yes/no answer that
\* advances) moves the pointer to the next index of the section when a
\* question is there, otherwise to index 0 of the next section, and asks the
\* question there or, when there is none, speaks the closing statement.
C6_SameResolution ==
    (CompletedByConfirmation \/ CompletedByLastFollowup \/ CompletedByDecision) => Resolved

\* C7: YES to the opening clears waiting_for_ready_confirmation, puts the
\* pointer at (0, 0), leaves the other mode flags and current_followup_for
\* unset, writes nothing to patient_data and asks question 0 of section 0 of
\* the loaded catalog with its text unchanged.
C7_ReadinessYesStarts ==
    (AwaitingReadiness /\ turn.decision = "YES") =>
        /\ ~Now.waiting_for_ready_confirmation
        /\ Pointer(Now) = <<0, 0>>
        /\ ~Now.awaiting_confirmation
        /\ ~Now.awaiting_followup_confirmation
        /\ IsNone(Now.current_followup_for)
        /\ Now.patient_data = Before.patient_data
        /\ response.kind = "first_question"
        /\ response.text = Get(Now.questions).sections[1][1].question

C7_Witness ==
    /\ AwaitingReadiness
    /\ turn.decision = "YES"
    /\ response.kind = "first_question"
    /\ response.text = "Any surgeries for example, appendix?"

\* the pending main answer, and the branches that call validate_with_gemini
PendingNow == Get(Now.unconfirmed_answer)

ValidatedBranches == { "date_of_birth", "email", "phone", "date", "other" }

\* C8: when Gemini validates a main answer as VALID with a reformatted value
\* v, the pending answer holds v and the confirmation prompt reads v back;
\* YES at the confirmation stores (question_title, pending value) under the
\* question_id.
C8_ValidatedValueKept ==
    /\ (AwaitingAnswer /\ turn.verdict = "VALID|" /\ response.kind = "confirmation") =>
           /\ ~IsNone(Now.unconfirmed_answer)
           /\ PendingNow.response = turn.value
           /\ response.value = turn.value
    /\ ( /\ AwaitingConfirmation
          /\ turn.decision = "YES"
          /\ response.kind # "EXCEPTION"
          /\ SlotBranch(Get(Before.unconfirmed_answer).question_title) \in ValidatedBranches ) =>
           LET pending == Get(Before.unconfirmed_answer)
           IN /\ pending.question_id \in DOMAIN Now.patient_data
              /\ Now.patient_data[pending.question_id]
                     = <<pending.question_title, pending.response>>

\* C9: NO at the confirmation of a follow-up answer asks the follow-up's
\* original text again, keeps the pending follow-up's id, title and index
\* with an empty response, clears awaiting_followup_confirmation and leaves
\* patient_data and the pointer as they were.
C9_FollowupNoReasks ==
    (AwaitingFollowupConfirmation /\ turn.decision = "NO") =>
        LET pending == Get(Before.unconfirmed_followup)
        IN /\ response.kind = "retry_followup"
           /\ response.text = pending.question_text
           /\ ~IsNone(Now.unconfirmed_followup)
           /\ Get(Now.unconfirmed_followup).question_id = pending.question_id
           /\ Get(Now.unconfirmed_followup).question_title = pending.question_title
           /\ Get(Now.unconfirmed_followup).followup_index = pending.followup_index
           /\ Get(Now.unconfirmed_followup).response = ""
           /\ ~Now.awaiting_followup_confirmation
           /\ Now.patient_data = Before.patient_data
           /\ Pointer(Now) = Pointer(Before)

C9_Witness ==
    /\ AwaitingFollowupConfirmation
    /\ turn.decision = "NO"
    /\ Get(Before.unconfirmed_followup).response = "appendectomy"
    /\ Get(Now.unconfirmed_followup).question_title = "surgeries_date"

\* C10: the provide-answer turn that follows a NO at the confirmation of a
\* follow-up answer takes the utterance as the answer to that follow-up: it
\* becomes the pending follow-up's response and is read back for
\* confirmation.
C10_NextUtteranceAnswersFollowup ==
    [][ ( /\ AwaitingFollowupConfirmation
          /\ turn.decision = "NO"
          /\ turn'.intent = "CaptureAnswerIntent"
          /\ ~IsNone(turn'.slot_value) )
        => ( /\ response'.kind = "followup_confirmation"
             /\ session_attributes'.awaiting_followup_confirmation
             /\ ~IsNone(session_attributes'.unconfirmed_followup)
             /\ Get(session_attributes'.unconfirmed_followup).followup_index
                    = Get(session_attributes.unconfirmed_followup).followup_index
             /\ Get(session_attributes'.unconfirmed_followup).response = response'.value ) ]_vars

\* C11: when the validation call fails on a main answer, the locally
\* normalised slot value becomes the pending answer, awaiting_confirmation is
\* set, the confirmation prompt reads that value back in the same turn and
\* patient_data is not written.
C11_ValidationFailureAccepts ==
    (AwaitingAnswer /\ turn.verdict = "ERROR") =>
        LET q == Get(QuestionBefore)
            raw == LocalNormalise(SlotBranch(q.question_title), Get(turn.slot_value))
        IN /\ response.kind = "confirmation"
           /\ response.value = raw
           /\ Now.awaiting_confirmation
           /\ ~IsNone(Now.unconfirmed_answer)
           /\ PendingNow.question_id = q.question_id
           /\ PendingNow.response = raw
           /\ Now.patient_data = Before.patient_data

C11_Witness ==
    /\ AwaitingAnswer
    /\ turn.verdict = "ERROR"
    /\ response.kind = "confirmation"
    /\ Now.awaiting_confirmation
    /\ PendingNow.question_title = "email"
    /\ PendingNow.response = "1990-11-11"

\* the records of a stored document that carry a question_id
RecordsOf(doc, question_id) == { i \in DOMAIN doc : doc[i].question_id = question_id }

SessionKey(sa) == <<sa.session_id, sa.patient_id>>

\* C12: every stored document holds at most one record per question_id; the
\* document of the running session holds, for each answer of patient_data,
\* exactly one record and it carries that answer's label and value; saving
\* the same patient_data once more changes nothing.
C12_OneRecordPerQuestion ==
    /\ \A key \in DOMAIN patients :
          \A i, j \in DOMAIN patients[key] :
             patients[key][i].question_id = patients[key][j].question_id => i = j
    /\ (response.kind # "EXCEPTION" /\ DOMAIN Now.patient_data # {}) =>
          /\ SessionKey(Now) \in DOMAIN patients
          /\ \A id \in DOMAIN Now.patient_data :
                LET doc == patients[SessionKey(Now)]
                IN /\ Cardinality(RecordsOf(doc, id)) = 1
                   /\ \A i \in RecordsOf(doc, id) :
                         doc[i] = ResponseRecord(id, Now.patient_data[id])
    /\ save_patient_data(save_patient_data(patients, Now), Now)
           = save_patient_data(patients, Now)

C12_Witness ==
    /\ response.kind # "EXCEPTION"
    /\ Cardinality(DOMAIN Now.patient_data) >= 2
    /\ SessionKey(Now) \in DOMAIN patients
    /\ Len(patients[SessionKey(Now)]) = Cardinality(DOMAIN Now.patient_data)

\* the part of the session a turn that only re-asks must leave alone
DialogueState(sa) ==
    [ patient_data |-> sa.patient_data,
      pointer |-> Pointer(sa),
      waiting_for_ready_confirmation |-> sa.waiting_for_ready_confirmation,
      awaiting_confirmation |-> sa.awaiting_confirmation,
      awaiting_followup_confirmation |-> sa.awaiting_followup_confirmation,
      current_followup_for |-> sa.current_followup_for,
      unconfirmed_answer |-> sa.unconfirmed_answer,
      unconfirmed_followup |-> sa.unconfirmed_followup ]

\* C13: when is_repeat_request reports a request to repeat, in the main or
\* the follow-up answer mode, the turn leaves patient_data, the pointer, the
\* mode flags and the pending answer and follow-up as they were.
C13_RepeatChangesNothing ==
    ((AwaitingAnswer \/ AwaitingFollowupAnswer) /\ turn.repeat = "yes") =>
        DialogueState(Now) = DialogueState(Before)

\* C14: at most one of waiting_for_ready_confirmation, awaiting_confirmation
\* and awaiting_followup_confirmation is set, and awaiting_confirmation is
\* never set while current_followup_for is.
C14_ModesExclusive ==
    /\ ~(Now.waiting_for_ready_confirmation /\ Now.awaiting_confirmation)
    /\ ~(Now.waiting_for_ready_confirmation /\ Now.awaiting_followup_confirmation)
    /\ ~(Now.awaiting_confirmation /\ Now.awaiting_followup_confirmation)
    /\ ~(Now.awaiting_confirmation /\ ~IsNone(Now.current_followup_for))

\* the get_next_sequence calls made so far, by session and position
Calls == { <<s, i>> : s \in ConcurrentSessions, i \in 1 .. Len(AllocationOrder) }

Made == { c \in Calls : c[2] <= Len(allocated[c[1]]) }

CallOf(c) == allocated[c[1]][c[2]]

\* C15: under every interleaving of the calls of concurrent sessions, no two
\* calls on one counter name return the same value, and every call returns
\* one more than the counter held just before it.
C15_SequenceAtomic ==
    /\ \A c, d \in Made :
          (c # d /\ CallOf(c).name = CallOf(d).name) => CallOf(c).seq # CallOf(d).seq
    /\ \A c \in Made : CallOf(c).seq = CallOf(c).before + 1

C15_Witness ==
    /\ <<1, 3>> \in Made
    /\ <<2, 1>> \in Made
    /\ CallOf(<<1, 1>>).seq = 1
    /\ CallOf(<<2, 1>>).seq = 2
    /\ CallOf(<<1, 3>>).seq = 3

\* C16: a launch or a provide-answer turn that cannot retrieve the catalog
\* speaks the retrieval apology and leaves the session attributes, the
\* counters and the stored answers as they were.
C16_RetrievalFailureKeepsSession ==
    [][ turn'.db = "fail" =>
           /\ response'.kind = "retrieve_error"
           /\ response'.text = retrieve_error_mg
           /\ counters' = counters
           /\ session_attributes' = session_attributes
           /\ patients' = patients ]_vars

C16_Witness ==
    /\ turn.intent = "CaptureAnswerIntent"
    /\ turn.db = "fail"
    /\ response.text = retrieve_error_mg
    /\ Now.waiting_for_ready_confirmation
    /\ Now.session_id = 1
    /\ counters.session_id = 1

\* the main question that carries a question_id
QuestionOf(id) == CHOOSE q \in MainQuestions : q.question_id = id

\* C17: YES at the confirmation of a free-text main answer whose question
\* has follow-ups starts the follow-ups: current_followup_for is the
\* question_id, follow-ups are queued under it, the pointer stays and one of
\* the question's follow-ups is asked.
C17_ConfirmedAnswerStartsFollowups ==
    ( /\ AwaitingConfirmation
      /\ turn.decision = "YES"
      /\ response.kind # "EXCEPTION"
      /\ ~IsNone(Before.unconfirmed_answer)
      /\ Get(Before.unconfirmed_answer).question_title \in FREE_TEXT_SLOTS
      /\ QuestionOf(Get(Before.unconfirmed_answer).question_id).follow_up # <<>> ) =>
        LET q == QuestionOf(Get(Before.unconfirmed_answer).question_id)
        IN /\ Now.current_followup_for = Some(q.question_id)
           /\ FollowupList(Now, q.question_id) # <<>>
           /\ Pointer(Now) = Pointer(Before)
           /\ \E i \in DOMAIN q.follow_up : response.text = q.follow_up[i].question

\* the follow-up whose answer was pending when the turn began, and the
\* follow-ups configured after it under its question
PendingFollowup == Get(Before.unconfirmed_followup)

LaterFollowups ==
    LET q == QuestionOf(PendingFollowup.question_id)
    IN { q.follow_up[i].question :
            i \in { j \in DOMAIN q.follow_up : j > PendingFollowup.followup_index + 1 } }

\* C18: when YES confirms the answer to a follow-up (the inline detail of a
\* yes/no question is the answer to follow-up 0) and the question has
\* further follow-ups configured, the pointer stays and one of those further
\* follow-ups is asked.
C18_RemainingFollowupsAsked ==
    ( /\ AwaitingFollowupConfirmation
      /\ turn.decision = "YES"
      /\ response.kind # "EXCEPTION"
      /\ LaterFollowups # {} ) =>
        /\ Pointer(Now) = Pointer(Before)
        /\ response.text \in LaterFollowups

\* C19: YES at the confirmation of a follow-up answer stores (question_title,
\* response) under the follow-up's id in patient_data and in the stored
\* document; then, when a further follow-up is queued, it becomes the pending
\* one with an empty response, current_followup_for is the question_id,
\* awaiting_followup_confirmation is off and the pointer stays; otherwise
\* current_followup_for is cleared and the pointer moves on by one question
\* (to the start of the next section when the section has no question there).
C19_FollowupYesCommits ==
    ( /\ AwaitingFollowupConfirmation
      /\ turn.decision = "YES"
      /\ response.kind # "EXCEPTION" ) =>
        LET p == PendingFollowup
            id == FollowupId(p.question_id, p.followup_index)
            queued == FollowupList(Before, p.question_id)
            doc == patients[SessionKey(Now)]
        IN /\ id \in DOMAIN Now.patient_data
           /\ Now.patient_data[id] = <<p.question_title, p.response>>
           /\ SessionKey(Now) \in DOMAIN patients
           /\ \E i \in DOMAIN doc : doc[i] = ResponseRecord(id, <<p.question_title, p.response>>)
           /\ ~Now.awaiting_followup_confirmation
           /\ IF p.followup_index + 1 < Len(queued)
              THEN /\ Now.unconfirmed_followup =
                         Some([ question_id |-> p.question_id,
                                question_text |-> queued[p.followup_index + 2].question,
                                question_title |-> queued[p.followup_index + 2].question_title,
                                response |-> "",
                                followup_index |-> p.followup_index + 1 ])
                   /\ Now.current_followup_for = Some(p.question_id)
                   /\ Pointer(Now) = Pointer(Before)
                   /\ response.text = queued[p.followup_index + 2].question
              ELSE /\ IsNone(Now.current_followup_for)
                   /\ Pointer(Now) = Resolution(Before).pointer

C19_Witness ==
    /\ AwaitingFollowupConfirmation
    /\ turn.decision = "YES"
    /\ response.kind = "next_followup"
    /\ FollowupId(<<0, 0>>, 0) \in DOMAIN Now.patient_data
    /\ Get(Now.unconfirmed_followup).followup_index = 1

\* the state is the one a NO at the confirmation of a main answer has left
RejectedAnswer == AwaitingConfirmation /\ turn.decision = "NO"

\* the responses of a turn that took the utterance as a main answer to a
\* question with a confirmation turn
MainAnswerResponses == { "confirmation", "reworded", "full_name" }

\* C20: NO at the confirmation of a main answer clears awaiting_confirmation,
\* asks the pending answer's question text again and leaves patient_data and
\* the pointer as they were; the next utterance is taken as a new answer to
\* the same main question and commits nothing; awaiting_confirmation is only
\* set again by a turn that reads a new pending answer back.
C20_ConfirmationNoRetries ==
    [][ /\ RejectedAnswer' =>
              /\ ~session_attributes'.awaiting_confirmation
              /\ response'.kind = "retry_answer"
              /\ response'.text = Get(session_attributes.unconfirmed_answer).question_text
              /\ session_attributes'.patient_data = session_attributes.patient_data
              /\ Pointer(session_attributes') = Pointer(session_attributes)
        /\ ( /\ RejectedAnswer
             /\ turn'.intent = "CaptureAnswerIntent"
             /\ ~IsNone(turn'.slot_value) ) =>
              /\ response'.kind \in MainAnswerResponses
              /\ session_attributes'.patient_data = session_attributes.patient_data
              /\ Pointer(session_attributes') = Pointer(session_attributes)
              /\ response'.kind = "confirmation" =>
                    /\ Get(session_attributes'.unconfirmed_answer).question_id
                           = Get(session_attributes.unconfirmed_answer).question_id
                    /\ Get(session_attributes'.unconfirmed_answer).section
                           = session_attributes.current_section
                    /\ Get(session_attributes'.unconfirmed_answer).question_index
                           = session_attributes.current_question
        /\ (~session_attributes.awaiting_confirmation
              /\ session_attributes'.awaiting_confirmation) =>
              response'.kind = "confirmation"
      ]_vars

\* C21: an UNCLEAR reply at the confirmation of a main answer or of a
\* follow-up answer asks for the confirmation again and leaves every session
\* attribute as it was.
C21_UnclearKeepsSession ==
    ((AwaitingConfirmation \/ AwaitingFollowupConfirmation) /\ turn.decision = "UNCLEAR") =>
        /\ Now = Before
        /\ response.kind \in { "confirm_again", "confirm_followup_again" }
        /\ AwaitingConfirmation => response.kind = "confirm_again"
        /\ AwaitingFollowupConfirmation => response.kind = "confirm_followup_again"

C21_Witness ==
    /\ AwaitingConfirmation
    /\ turn.decision = "UNCLEAR"
    /\ response.kind = "confirm_again"
    /\ ~IsNone(Now.unconfirmed_answer)
    /\ Now.awaiting_confirmation

C23_DecisionWithoutDetail ==
    /\ ( /\ AwaitingAnswer
         /\ turn.parse = "YES"
         /\ IsNone(turn.detail)
         /\ Get(QuestionBefore).follow_up # <<>> ) =>
           LET q == Get(QuestionBefore)
           IN /\ FollowupList(Now, q.question_id) = q.follow_up
              /\ Now.current_followup_for = Some(q.question_id)
              /\ Now.unconfirmed_followup =
                    Some([ question_id |-> q.question_id,
                           question_text |-> q.follow_up[1].question,
                           question_title |-> q.follow_up[1].question_title,
                           response |-> "",
                           followup_index |-> 0 ])
              /\ ~Now.awaiting_followup_confirmation
              /\ response.kind = "first_followup"
              /\ response.text = q.follow_up[1].question
              /\ Pointer(Now) = Pointer(Before)
    /\ ( /\ AwaitingAnswer
         /\ \/ turn.parse = "NO"
            \/ /\ turn.parse = "YES"
               /\ IsNone(turn.detail)
               /\ Get(QuestionBefore).follow_up = <<>> ) =>
           /\ Resolved
           /\ ~Now.awaiting_confirmation
           /\ IsNone(Now.current_followup_for)

C23_Witness ==
    /\ AwaitingAnswer
    /\ turn.parse = "YES"
    /\ IsNone(turn.detail)
    /\ response.kind = "first_followup"
    /\ Len(FollowupList(Now, <<0, 0>>)) = MaxFollowUps

\* C24: the value stored under the id of a yes/no question is "yes" or
\* "no"; an answer parsed as UNCLEAR writes nothing, keeps the pointer and
\* asks the same question again.
C24_OnlyYesOrNoStored ==
    /\ \A q \in MainQuestions :
          (q.question_title \in NO_CONFIRMATION_SLOTS
             /\ q.question_id \in DOMAIN Now.patient_data) =>
                Now.patient_data[q.question_id][2] \in { "yes", "no" }
    /\ (AwaitingAnswer /\ turn.parse = "UNCLEAR") =>
          /\ Now.patient_data = Before.patient_data
          /\ Pointer(Now) = Pointer(Before)
          /\ response.text = Get(QuestionBefore).question

\* C25: on a yes/no question without follow-ups, YES with a detail ends the
\* turn normally: the detail is the pending follow-up answer under the
\* question's own slot name and is read back for confirmation.
C25_DetailWithoutFollowups ==
    ( /\ AwaitingAnswer
      /\ turn.parse = "YES"
      /\ ~IsNone(turn.detail)
      /\ Get(QuestionBefore).follow_up = <<>> ) =>
        LET q == Get(QuestionBefore)
        IN /\ response.kind = "detail_confirmation"
           /\ response.value = Get(turn.detail)
           /\ ~IsNone(Now.unconfirmed_followup)
           /\ Get(Now.unconfirmed_followup).question_id = q.question_id
           /\ Get(Now.unconfirmed_followup).question_title = q.question_title
           /\ Get(Now.unconfirmed_followup).response = Get(turn.detail)
           /\ Now.awaiting_followup_confirmation

\* C26: while the readiness is awaited, a NO or an UNCLEAR leaves the session
\* waiting, the pointer at (0, 0) and patient_data empty; an UNCLEAR is
\* answered with one of the fixed rephrasings, never with the opening text
\* of the catalog.
C26_NotReadyKeepsWaiting ==
    (AwaitingReadiness /\ turn.decision \in { "NO", "UNCLEAR" }) =>
        /\ Now.waiting_for_ready_confirmation
        /\ Pointer(Now) = <<0, 0>>
        /\ Now.patient_data = EmptyMap
        /\ ~Now.awaiting_confirmation
        /\ ~Now.awaiting_followup_confirmation
        /\ patients = EmptyMap
        /\ turn.decision = "NO" => response.kind = "wait_ready"
        /\ turn.decision = "UNCLEAR" =>
              /\ response.kind = "opening_rephrase"
              /\ response.text \in OPENING_REPHRASES
              /\ response.text # collection.opening
              /\ response.text # Get(Now.questions).opening

C26_Witness ==
    /\ AwaitingReadiness
    /\ turn.decision = "UNCLEAR"
    /\ ~IsNone(Before.questions)
    /\ response.text \in OPENING_REPHRASES

\* C27: when validate_with_gemini rejects a main answer, the turn asks the
\* reworded question Gemini supplied and changes nothing else: no pending
\* answer is stored, awaiting_confirmation stays false, patient_data and the
\* pointer are as before the turn.
C27_InvalidReasksUnchanged ==
    (AwaitingAnswer /\ turn.verdict = "INVALID|") =>
        /\ response.kind = "reworded"
        /\ response.text = turn.value
        /\ response.reprompt
        /\ Now.unconfirmed_answer = Before.unconfirmed_answer
        /\ ~Now.awaiting_confirmation
        /\ Now.patient_data = Before.patient_data
        /\ Pointer(Now) = Pointer(Before)
        /\ DialogueState(Now) = DialogueState(Before)

C27_Witness ==
    /\ AwaitingAnswer
    /\ turn.verdict = "INVALID|"
    /\ response.kind = "reworded"
    /\ Before.patient_data # EmptyMap

\* a pending follow-up that lacks a required key
Malformed(unconfirmed) == ~IsNone(unconfirmed) /\ MissingKeys(Get(unconfirmed)) # {}

\* C28: a turn that starts in a follow-up mode with a pending follow-up that
\* lacks a required key apologizes and clears the transient state: at its
\* end the session is in no follow-up mode without a complete pending
\* follow-up, so the next turn is not the apology again.
C28_MalformedPendingCleared ==
    ( /\ AwaitingFollowupConfirmation \/ AwaitingFollowupAnswer
      /\ Malformed(Before.unconfirmed_followup) ) =>
        /\ response.kind \in { "followup_missing_keys", "followup_invalid" }
        /\ ~Malformed(Now.unconfirmed_followup)
        /\ (Now.awaiting_followup_confirmation \/ ~IsNone(Now.current_followup_for))
              => ~IsNone(Now.unconfirmed_followup)

\* the records of the stored document under a question_id
StoredUnder(question_id) ==
    { i \in DOMAIN StoredDoc : StoredDoc[i].question_id = question_id }

\* C29: whatever the interleaving of the save_patient_data executions that
\* write the same (session_id, patient_id, question_id), once they have
\* returned the response array holds exactly one record for that
\* question_id.
C29_OneRecordPerQuestion ==
    (\A e \in Executions : saving[e].pc = "done") =>
        \A e \in Executions : \A i \in DOMAIN saving[e].items :
            Cardinality(StoredUnder(saving[e].items[i][1])) = 1

\* C30: at the end of every turn, whatever its outcome, each question id of
\* patient_data has a record in the stored document of the session's
\* (session_id, patient_id), with the same label and value.
C30_AnswersPersisted ==
    \A id \in DOMAIN Now.patient_data :
        /\ SessionKey(Now) \in DOMAIN patients
        /\ \E i \in DOMAIN patients[SessionKey(Now)] :
              patients[SessionKey(Now)][i] = ResponseRecord(id, Now.patient_data[id])

C30_Witness ==
    /\ \E q \in MainQuestions :
          /\ q.question_id \in DOMAIN Now.patient_data
          /\ FollowupId(q.question_id, 0) \in DOMAIN Now.patient_data
          /\ q.question_id \notin DOMAIN Before.patient_data \/
             FollowupId(q.question_id, 0) \notin DOMAIN Before.patient_data
    /\ \A id \in DOMAIN Now.patient_data :
          \E i \in DOMAIN patients[SessionKey(Now)] :
              patients[SessionKey(Now)][i] = ResponseRecord(id, Now.patient_data[id])

\* C31: whenever a turn moves the pointer into a new section and asks the
\* question at index 0 there, the prompt carries the section-transition
\* framing line, whichever branch did the resolution.
C31_SectionChangeFramed ==
    ( /\ Answered
      /\ Now.current_section = Before.current_section + 1
      /\ response.kind = "next_question" ) => response.framing

\* C32: a value written to patient_data under a main question_id is never
\* changed by a later turn of the session; a rejected follow-up answer that
\* is given again leaves the main question's decision as it was.
C32_MainValueNeverChanges ==
    \A q \in MainQuestions :
        q.question_id \in DOMAIN Before.patient_data =>
            /\ q.question_id \in DOMAIN Now.patient_data
            /\ Now.patient_data[q.question_id] = Before.patient_data[q.question_id]

\* C33: a YES at a confirmation writes to patient_data exactly the value that
\* was pending and read back, for a main answer under its question_id and
\* for a follow-up answer under its follow-up id, in any section.
C33_CommittedIsPending ==
    /\ ( /\ AwaitingConfirmation
         /\ turn.decision = "YES"
         /\ response.kind # "EXCEPTION" ) =>
           LET pending == Get(Before.unconfirmed_answer)
           IN /\ pending.question_id \in DOMAIN Now.patient_data
              /\ Now.patient_data[pending.question_id]
                     = <<pending.question_title, pending.response>>
    /\ ( /\ AwaitingFollowupConfirmation
         /\ turn.decision = "YES"
         /\ response.kind # "EXCEPTION" ) =>
           LET id == FollowupId(PendingFollowup.question_id, PendingFollowup.followup_index)
           IN /\ id \in DOMAIN Now.patient_data
              /\ Now.patient_data[id]
                     = <<PendingFollowup.question_title, PendingFollowup.response>>

\* C34: in a session that starts with a launch turn, the ids set at launch
\* never change: the provide-answer turns that follow consume no further
\* value of the session_id or patient_id counter and keep the session's ids.
C34_IdsAssignedOnce ==
    (turn.intent = "CaptureAnswerIntent" /\ Before.session_id # 0) =>
        /\ Now.session_id = Before.session_id
        /\ Now.patient_id = Before.patient_id
        /\ counters.session_id = Now.session_id
        /\ counters.patient_id = Now.patient_id

\* the main question at the pointer of the session, if any
QuestionNow == get_next_question(Now.questions, Now.current_section, Now.current_question)

\* C35: in every reachable state, awaiting_confirmation implies a pending
\* answer with all its keys whose section and question_index are the
\* pointer; awaiting_followup_confirmation or a set current_followup_for
\* implies a pending follow-up with all its keys whose question_id is that
\* of the main question at the pointer.
C35_PendingWellFormed ==
    /\ Now.awaiting_confirmation =>
          /\ ~IsNone(Now.unconfirmed_answer)
          /\ { "question_id", "question_title", "question_text", "response",
               "section", "question_index" } \subseteq DOMAIN Get(Now.unconfirmed_answer)
          /\ <<Get(Now.unconfirmed_answer).section,
               Get(Now.unconfirmed_answer).question_index>> = Pointer(Now)
    /\ (Now.awaiting_followup_confirmation \/ ~IsNone(Now.current_followup_for)) =>
          /\ ~IsNone(Now.unconfirmed_followup)
          /\ (required_keys \cup { "response" }) \subseteq DOMAIN Get(Now.unconfirmed_followup)
          /\ ~IsNone(QuestionNow)
          /\ Get(Now.unconfirmed_followup).question_id = Get(QuestionNow).question_id

\* every section of the catalog holds a question
NonEmptySections == \A s \in DOMAIN collection.sections : collection.sections[s] # <<>>

\* the pointer after p in catalog order, when every section holds a question
Successor(p) ==
    IF p[2] + 1 < Len(collection.sections[p[1] + 1]) THEN <<p[1], p[2] + 1>>
    ELSE <<p[1] + 1, 0>>

\* the main questions are prompted one after the other: the first after the
\* readiness, each next one is the question at the successor of the pointer,
\* and the closing comes when the pointer has left the last section
PromptedInOrder ==
    /\ response.kind = "first_question" =>
          /\ Pointer(Now) = <<0, 0>>
          /\ response.text = Get(QuestionNow).question
    /\ response.kind = "next_question" =>
          /\ Pointer(Now) = Successor(Pointer(Before))
          /\ response.text = Get(QuestionNow).question
    /\ response.kind = "closing" =>
          /\ Pointer(Now) = Successor(Pointer(Before))
          /\ Now.current_section = Len(collection.sections)

\* C36: on a catalog whose sections all hold a question, the cooperative run
\* reaches the closing statement, and on its way prompts every main
\* question once, in catalog order.
C36_CooperativeRunCloses ==
    /\ <>(NonEmptySections => response.kind = "closing")
    /\ [](NonEmptySections => PromptedInOrder)

\* the main questions no prompt has reached: those at or after the pointer
Unasked ==
    { q \in MainQuestions :
        NotBackward(Pointer(Now), <<q.question_id[1], q.question_id[2]>>) }

\* C37: the closing statement is spoken only when no section after the
\* current one holds a question; no main question is left unasked, also
\* when an empty section lies between two sections that hold a question.
C37_ClosingLeavesNothingUnasked ==
    response.kind = "closing" => Unasked = {}

\* the session is in one of the follow-up modes
InFollowupMode(sa) ==
    /\ ~sa.waiting_for_ready_confirmation
    /\ sa.awaiting_followup_confirmation \/ ~IsNone(sa.current_followup_for)
    /\ ~IsNone(sa.unconfirmed_followup)

\* C38: a fallback turn changes nothing in the session and asks again what
\* the session is waiting on: the opening while the readiness is awaited,
\* the pending follow-up question in the follow-up modes, the main question
\* at the pointer otherwise.
C38_FallbackRepromptsCurrent ==
    turn.intent = "FallbackIntent" =>
        /\ Now = Before
        /\ response.reprompt
        /\ Now.waiting_for_ready_confirmation => response.text = collection.opening
        /\ InFollowupMode(Now) =>
              response.text = Get(Now.unconfirmed_followup).question_text
        /\ ( /\ ~Now.waiting_for_ready_confirmation
             /\ ~InFollowupMode(Now)
             /\ ~IsNone(QuestionNow) ) => response.text = Get(QuestionNow).question

\* next-question resolution ran in the turn and found no question: the
\* pointer moved and no question is at it
FoundExhausted == Answered /\ Pointer(Now) # Pointer(Before) /\ IsNone(QuestionNow)

\* C39: every response sets a reprompt except the closing statement, and
\* the closing statement is spoken exactly when next-question resolution
\* found the catalog exhausted.
C39_RepromptUnlessClosing ==
    (turn.intent # "-" /\ response.kind # "EXCEPTION") =>
        /\ ~response.reprompt <=> response.kind = "closing"
        /\ response.kind = "closing" <=> FoundExhausted

\* the question an execution was called for: the newest item of its
\* patient_data, the one committed just before the call
Committed(e) == saving[e].items[Len(saving[e].items)][1]

\* C40: a save_patient_data call made after committing question X leaves the
\* stored record of every other question id as it was, value and time.
C40_OtherRecordsUntouched ==
    [][ \A e \in Executions :
          (saving[e].pc # "idle" /\ saving'[e] # saving[e]) =>
              \A i \in DOMAIN StoredDoc :
                  StoredDoc[i].question_id # Committed(e) =>
                      patients'[SavedKey][i] = StoredDoc[i] ]_vars

====
